---- MODULE Spec2Model ----
(***************************************************************************)
(* Conecta 4 (src/conecta4.js): a 6x7 board, two players, one readline     *)
(* prompt at a time.  The state is the module-level variables of the       *)
(* script (board, currentPlayer, playing), the readline interface (the     *)
(* outstanding question, the number of rl.close() calls), the last         *)
(* console message, and the lines the user will type.                      *)
(***************************************************************************)
EXTENDS Integers, Sequences, FiniteSets, TLC

VARIABLES
  board,          \* board[r][c] in 0..2, r = 0 is the top row        (line 5)
  currentPlayer,  \* 1 or 2                                           (line 6)
  playing,        \* FALSE once the game has been won or drawn        (line 7)
  question,       \* player named by the outstanding rl.question, 0 if none
  closed,         \* number of rl.close() calls so far
  msg,            \* last console.log of the callback ("" after console.clear)
  row,            \* r of the last callback's board[r][col] = currentPlayer; -1 if none
  col,            \* col of the last callback when it passed the range test; else -1
  drops,          \* drops[c]: number of pieces placed in column c so far
  stdin,          \* lines typed ahead by the user, not yet delivered
  free,           \* pieces placed by lines typed after the typed-ahead ones
  shown,          \* the grid of cell texts last written by printBoard
  events,         \* the console and readline calls of the last callback, in order
  fault           \* what reads of board outside the grid have caused so far

vars == <<board, currentPlayer, playing, question, closed, msg, row, col,
          drops, stdin, free, shown, events, fault>>

ROWS == 6
COLS == 7

\* Number of pieces the user may place after the typed-ahead lines.
MaxFree == 3

\* Number of cells left Empty by the lines typed ahead in the games that are
\* played to their end.
LiveLeft == 8

RowIdx == 0 .. (ROWS - 1)
ColIdx == 0 .. (COLS - 1)

MsgNone == ""
MsgInvalid == "Columna invalida."
MsgFull == "Columna llena, elige otra."
MsgWin == "gana"
MsgDraw == "Empate, tablero lleno"

\* The two discs of lines 16, 21, 22 and 34, by name.
Red == "red circle"
Yellow == "yellow circle"

\* No read outside the grid; a read of board[r][c] with c outside 0..6, which
\* yields undefined; a read of board[r][c] with r outside 0..5, which throws.
FaultNone == "none"
FaultUndefined == "undefined"
FaultTypeError == "TypeError"

-----------------------------------------------------------------------------
(* parseInt(input) - 1 and the range test of lines 35-36.                  *)
(* A line is a sequence of one-character strings; a number is a record     *)
(* [nan, val] so that NaN is a value of its own.                           *)

WhiteSpace == {" ", "\t"}
DecChars == <<"0", "1", "2", "3", "4", "5", "6", "7", "8", "9">>
HexLower == <<"0", "1", "2", "3", "4", "5", "6", "7", "8", "9",
              "a", "b", "c", "d", "e", "f">>
HexUpper == <<"0", "1", "2", "3", "4", "5", "6", "7", "8", "9",
              "A", "B", "C", "D", "E", "F">>

NaN == [nan |-> TRUE, val |-> 0]
Num(n) == [nan |-> FALSE, val |-> n]

IsDigit(ch, radix) ==
  \E i \in 1 .. radix : HexLower[i] = ch \/ HexUpper[i] = ch

DigitVal(ch) ==
  (CHOOSE i \in 1 .. Len(HexLower) : HexLower[i] = ch \/ HexUpper[i] = ch) - 1

RECURSIVE TrimLeft(_)
TrimLeft(s) ==
  IF s # <<>> /\ Head(s) \in WhiteSpace THEN TrimLeft(Tail(s)) ELSE s

\* The longest prefix of s made of digits of the radix.
RECURSIVE DigitPrefix(_, _)
DigitPrefix(s, radix) ==
  IF s # <<>> /\ IsDigit(Head(s), radix)
  THEN <<Head(s)>> \o DigitPrefix(Tail(s), radix)
  ELSE <<>>

RECURSIVE DigitsValue(_, _, _)
DigitsValue(s, radix, acc) ==
  IF s = <<>> THEN acc
  ELSE DigitsValue(Tail(s), radix, acc * radix + DigitVal(Head(s)))

\* ECMAScript parseInt(string) with no radix argument.
parseInt(input) ==
  LET t      == TrimLeft(input)
      signed == t # <<>> /\ Head(t) \in {"+", "-"}
      sign   == IF t # <<>> /\ Head(t) = "-" THEN -1 ELSE 1
      u      == IF signed THEN Tail(t) ELSE t
      hex    == Len(u) >= 2 /\ u[1] = "0" /\ u[2] \in {"x", "X"}
      radix  == IF hex THEN 16 ELSE 10
      v      == IF hex THEN Tail(Tail(u)) ELSE u
      digits == DigitPrefix(v, radix)
  IN  IF digits = <<>> THEN NaN ELSE Num(sign * DigitsValue(digits, radix, 0))

\* x - n in JavaScript numbers: NaN - n is NaN.
Minus(x, n) == IF x.nan THEN NaN ELSE Num(x.val - n)

isNaN(x) == x.nan

\* The range test with its upper bound off by one: col > COLS.
InvalidColOffByOne(c) == isNaN(c) \/ c.val < 0 \/ c.val > COLS

\* isNaN(col) || col < 0 || col >= COLS
InvalidCol(c) == isNaN(c) \/ c.val < 0 \/ c.val >= COLS

-----------------------------------------------------------------------------
(* The board functions.                                                    *)

EmptyBoard == [r \in RowIdx |-> [c \in ColIdx |-> 0]]

\* board[r][c]; a missing column index reads undefined, and so does a missing
\* row index here: that such a read throws is recorded by Throws.
Undefined == -1
At(b, r, c) == IF r \in RowIdx /\ c \in ColIdx THEN b[r][c] ELSE Undefined

\* The fault after the reads of board at these index pairs.
Throws(reads) == \E rd \in reads : rd[1] \notin RowIdx
Fault(reads, before) ==
  IF Throws(reads) THEN FaultTypeError
  ELSE IF \E rd \in reads : rd[2] \notin ColIdx THEN FaultUndefined
  ELSE before

\* The text printBoard writes for a cell (lines 20-22).
CellTexts ==
  [v \in 0 .. 2 |->
     (IF v = 0 THEN <<"[", " ", "]">> ELSE <<>>) \o
     (IF v = 1 THEN <<"[", Red, "]">> ELSE <<>>) \o
     (IF v = 2 THEN <<"[", Yellow, "]">> ELSE <<>>)]

CellText(v) == CellTexts[v]

\* The rows printBoard writes.
printBoard(b) == [r \in RowIdx |-> [c \in ColIdx |-> CellText(b[r][c])]]

\* The scan run from the top row down: for (let r = 0; r < ROWS; r++).
FindRowTopDown(b, c, r) ==
  IF \E rr \in RowIdx : At(b, rr, c) = 0
  THEN CHOOSE rr \in RowIdx :
         At(b, rr, c) = 0 /\ \A r2 \in 0 .. (rr - 1) : At(b, r2, c) # 0
  ELSE -1

\* The scan stopping one row early: for (let r = ROWS - 1; r > 0; r--).
RECURSIVE FindRowStopsEarly(_, _, _)
FindRowStopsEarly(b, c, r) ==
  IF r < 1 THEN -1
  ELSE IF At(b, r, c) = 0 THEN r
  ELSE FindRowStopsEarly(b, c, r - 1)

\* The scan without its test of the cell: the bottom row is always taken.
FindRowNoTest(b, c, r) == r

\* for (let r = ROWS - 1; r >= 0; r--) if (board[r][col] === 0): the row found
\* by the scan started at row r, -1 when the loop runs out.
RECURSIVE FindRow(_, _, _)
FindRow(b, c, r) ==
  IF r < 0 THEN -1
  ELSE IF At(b, r, c) = 0 THEN r
  ELSE FindRow(b, c, r - 1)

\* The index pairs that scan reads.
RECURSIVE ScanReads(_, _, _)
ScanReads(b, c, r) ==
  IF r < 0 THEN {}
  ELSE {<<r, c>>} \cup (IF At(b, r, c) = 0 THEN {} ELSE ScanReads(b, c, r - 1))

\* board.some(...) for board.every(...): one full row is taken for a full board.
isBoardFullSomeRow(b) == \E r \in RowIdx : \A c \in ColIdx : b[r][c] # 0

\* The comparison inverted: cell === 0 for cell !== 0.
isBoardFullInverted(b) == \A r \in RowIdx : \A c \in ColIdx : b[r][c] = 0

isBoardFull(b) == \A r \in RowIdx : \A c \in ColIdx : b[r][c] # 0

\* The range test with the row bound off by one: r <= ROWS.
RangeOkRowOffByOne(r, c) == r >= 0 /\ r <= ROWS /\ c >= 0 /\ c < COLS

\* The range test of line 86: r >= 0 && r < ROWS && c >= 0 && c < COLS.
RangeOk(r, c) == r >= 0 /\ r < ROWS /\ c >= 0 /\ c < COLS

\* The while loop of countDirection from the cell (r, c) on.
RECURSIVE CountFrom(_, _, _, _, _, _)
CountFrom(b, r, c, dr, dc, player) ==
  IF RangeOk(r, c) /\ At(b, r, c) = player
  THEN 1 + CountFrom(b, r + dr, c + dc, dr, dc, player)
  ELSE 0

countDirection(b, r, c, dr, dc, player) ==
  CountFrom(b, r + dr, c + dc, dr, dc, player)

\* The index pairs that loop reads: board[r][c] is read when the range test
\* has passed.
RECURSIVE CountReads(_, _, _, _, _, _)
CountReads(b, r, c, dr, dc, player) ==
  IF RangeOk(r, c)
  THEN {<<r, c>>} \cup (IF At(b, r, c) = player
                        THEN CountReads(b, r + dr, c + dc, dr, dc, player)
                        ELSE {})
  ELSE {}

directionOrder == << <<0, 1>>, <<1, 0>>, <<1, 1>>, <<1, -1>> >>

\* The list of directions without its last entry.
directionsWithoutAntiDiagonal == { <<0, 1>>, <<1, 0>>, <<1, 1>> }

directions == { directionOrder[i] : i \in 1 .. Len(directionOrder) }

\* The count taken in the positive direction only.
checkWinForwardOnly(b, r, c, player) ==
  \E d \in directions :
    1 + countDirection(b, r, c, d[1], d[2], player) >= 4

checkWin(b, r, c, player) ==
  \E d \in directions :
    1 + countDirection(b, r, c, d[1], d[2], player)
      + countDirection(b, r, c, -d[1], -d[2], player) >= 4

\* count of one iteration of the loop of lines 73-78.
LineCount(b, r, c, d, player) ==
  1 + countDirection(b, r, c, d[1], d[2], player)
    + countDirection(b, r, c, -d[1], -d[2], player)

\* The index pairs checkWin reads: the loop over the directions returns at the
\* first one with a count of 4 or more.
RECURSIVE LoopReads(_, _, _, _, _)
LoopReads(b, r, c, player, i) ==
  IF i > Len(directionOrder) THEN {}
  ELSE LET d == directionOrder[i]
       IN  CountReads(b, r + d[1], c + d[2], d[1], d[2], player)
             \cup CountReads(b, r - d[1], c - d[2], -d[1], -d[2], player)
             \cup (IF LineCount(b, r, c, d, player) >= 4 THEN {}
                   ELSE LoopReads(b, r, c, player, i + 1))

checkWinReads(b, r, c, player) == LoopReads(b, r, c, player, 1)

-----------------------------------------------------------------------------
(* askMove and the callback of rl.question.                                *)

\* The calls a callback makes, as they are recorded in events.
Call(name, text, player) == [call |-> name, text |-> text, player |-> player]

\* The two arms of the conditional of line 34 exchanged.
PromptDiscSwapped(p) == IF p = 1 THEN Yellow ELSE Red

\* The disc named in the prompt of line 34.
PromptDisc(p) == IF p = 1 THEN Red ELSE Yellow

\* askMove() with its test inverted: if (playing) { rl.close(); return; }.
AskMoveInverted(pl, cp, cl) ==
  IF pl THEN [question |-> 0, closed |-> cl + 1, event |-> Call("close", "", 0)]
  ELSE [question |-> cp, closed |-> cl,
        event |-> Call("question", PromptDisc(cp), cp)]

\* askMove() without the test of playing: it asks again after the game is over.
AskMoveAlways(pl, cp, cl) ==
  [question |-> cp, closed |-> cl,
   event |-> Call("question", PromptDisc(cp), cp)]

\* askMove(): close the interface when the game is over, else ask the
\* current player.  Returns the interface's next state.
AskMove(pl, cp, cl) ==
  IF ~pl THEN [question |-> 0, closed |-> cl + 1, event |-> Call("close", "", 0)]
  ELSE [question |-> cp, closed |-> cl,
        event |-> Call("question", PromptDisc(cp), cp)]

\* The toggle with both arms alike: currentPlayer === 1 ? 1 : 1.
NextPlayerStuck(p) == IF p = 1 THEN 1 ELSE 1

NextPlayer(p) == IF p = 1 THEN 2 ELSE 1

\* The two checks in the other order: the full check, then the win check.
OutcomeFullFirst(b, r, c, player) ==
  IF isBoardFull(b) THEN MsgDraw
  ELSE IF checkWin(b, r, c, player) THEN MsgWin
  ELSE MsgNone

\* The message after board[r][c] = player: the win check, then the full check.
Outcome(b, r, c, player) ==
  IF checkWin(b, r, c, player) THEN MsgWin
  ELSE IF isBoardFull(b) THEN MsgDraw
  ELSE MsgNone

\* Lines 37-38 with the toggle of line 53 run before askMove().
InvalidBranchToggles ==
  /\ msg' = MsgInvalid
  /\ row' = -1
  /\ col' = -1
  /\ currentPlayer' = (IF currentPlayer = 1 THEN 2 ELSE 1)
  /\ question' = AskMove(playing, currentPlayer', closed).question
  /\ closed' = AskMove(playing, currentPlayer', closed).closed
  /\ events' = << Call("log", MsgInvalid, 0),
                  AskMove(playing, currentPlayer', closed).event >>
  /\ UNCHANGED <<board, playing, drops, shown>>

\* Lines 37-38 with askMove() not returned: the callback goes on to the scan,
\* finds no cell equal to 0 in column NaN, and runs lines 57-58 as well.
InvalidBranchNoReturn ==
  /\ msg' = MsgFull
  /\ row' = -1
  /\ col' = -1
  /\ question' = AskMove(playing, currentPlayer, closed).question
  /\ closed' = AskMove(playing, currentPlayer, closed).closed
  /\ events' = << Call("log", MsgInvalid, 0),
                  AskMove(playing, currentPlayer, closed).event,
                  Call("log", MsgFull, 0),
                  AskMove(playing, currentPlayer, closed).event >>
  /\ UNCHANGED <<board, currentPlayer, playing, drops, shown>>

\* Lines 37-38.
InvalidBranch ==
  /\ msg' = MsgInvalid
  /\ row' = -1
  /\ col' = -1
  /\ question' = AskMove(playing, currentPlayer, closed).question
  /\ closed' = AskMove(playing, currentPlayer, closed).closed
  /\ events' = << Call("log", MsgInvalid, 0),
                  AskMove(playing, currentPlayer, closed).event >>
  /\ UNCHANGED <<board, currentPlayer, playing, drops, shown>>

\* The full-column branch falling through to the toggle of line 53.
FullBranchToggles(c) ==
  /\ msg' = MsgFull
  /\ row' = -1
  /\ col' = c
  /\ currentPlayer' = (IF currentPlayer = 1 THEN 2 ELSE 1)
  /\ question' = AskMove(playing, currentPlayer', closed).question
  /\ closed' = AskMove(playing, currentPlayer', closed).closed
  /\ events' = << Call("log", MsgFull, 0),
                  AskMove(playing, currentPlayer', closed).event >>
  /\ UNCHANGED <<board, playing, drops, shown>>

\* Lines 57-58.
FullBranch(c) ==
  /\ msg' = MsgFull
  /\ row' = -1
  /\ col' = c
  /\ question' = AskMove(playing, currentPlayer, closed).question
  /\ closed' = AskMove(playing, currentPlayer, closed).closed
  /\ events' = << Call("log", MsgFull, 0),
                  AskMove(playing, currentPlayer, closed).event >>
  /\ UNCHANGED <<board, currentPlayer, playing, drops, shown>>

\* The toggle of line 53 run before the checks: also on the terminal move.
PlayerAfterAlwaysToggles(out, p) == NextPlayer(p)

\* currentPlayer after the checks of lines 44-53: toggled when the game goes on.
PlayerAfter(out, p) == IF out = MsgNone THEN NextPlayer(p) ELSE p

\* The calls of lines 43-54 before askMove(): printBoard(), then the
\* announcement of a win or a draw.
DropCalls(out, p) ==
  << Call("printBoard", "", 0) >> \o
  (IF out = MsgNone THEN << >>
   ELSE << Call("log", out, IF out = MsgWin THEN p ELSE 0) >>)

\* Lines 42-54.
DropBranch(r, c) ==
  /\ board' = [board EXCEPT ![r][c] = currentPlayer]
  /\ row' = r
  /\ col' = c
  /\ drops' = [drops EXCEPT ![c] = @ + 1]
  /\ shown' = printBoard(board')
  /\ msg' = Outcome(board', r, c, currentPlayer)
  /\ playing' = (IF msg' = MsgNone THEN playing ELSE FALSE)
  /\ currentPlayer' = PlayerAfter(msg', currentPlayer)
  /\ LET ask == AskMove(playing', currentPlayer', closed)
     IN  /\ question' = ask.question
         /\ closed' = ask.closed
         /\ events' = Append(DropCalls(msg', currentPlayer), ask.event)

\* Lines 42-44 when a read of checkWin throws: the piece is placed and the
\* board printed, the exception leaves the callback and ends the process.
AbortInCheck(r, c) ==
  /\ board' = [board EXCEPT ![r][c] = currentPlayer]
  /\ row' = r
  /\ col' = c
  /\ drops' = [drops EXCEPT ![c] = @ + 1]
  /\ msg' = MsgNone
  /\ question' = 0
  /\ shown' = printBoard(board')
  /\ events' = << Call("printBoard", "", 0), Call("throw", FaultTypeError, 0) >>
  /\ UNCHANGED <<currentPlayer, playing, closed>>

ColLine(n) == <<DecChars[n + 1]>>

\* The lines a user types once the typed-ahead ones are used up.
Lines ==
  { ColLine(n) : n \in 0 .. 9 } \cup
  { <<>>, <<"a", "b", "c">>, <<"-", "1">>, <<"1", "0">>, <<"+", "6">>,
    <<"0", "7">>, <<" ", "4">>, <<"3", "a", "b", "c">>, <<"2", ".", "9">>,
    <<"0", "x", "5">> }

\* const col = parseInt(input) - 1 of line 35, tabulated over the lines.
ColumnOf == [input \in Lines |-> Minus(parseInt(input), 1)]

\* The callback of rl.question on one line of input (lines 34-59).
OnLine(input) ==
  /\ question # 0
  /\ closed = 0
  /\ fault # FaultTypeError
  /\ LET c == ColumnOf[input]
     IN  IF InvalidCol(c) THEN InvalidBranch /\ fault' = fault
         ELSE LET r    == FindRow(board, c.val, ROWS - 1)
                  scan == ScanReads(board, c.val, ROWS - 1)
              IN  IF r >= 0
                  THEN /\ fault' = Fault(scan \cup checkWinReads(
                                      [board EXCEPT ![r][c.val] = currentPlayer],
                                      r, c.val, currentPlayer), fault)
                       /\ IF fault' = FaultTypeError THEN AbortInCheck(r, c.val)
                          ELSE DropBranch(r, c.val)
                  ELSE FullBranch(c.val) /\ fault' = Fault(scan, fault)

-----------------------------------------------------------------------------
(* The user.                                                               *)

Typed(cols) == [i \in 1 .. Len(cols) |-> ColLine(cols[i])]

\* A game without a line of four up to its 39th piece; three cells are left.
DrawGame ==
  <<5, 2, 7, 3, 2, 1, 2, 5, 5, 3, 5, 2, 4, 7, 4, 4, 2, 1, 5, 7, 7, 2, 3, 4,
    7, 1, 7, 5, 3, 6, 6, 4, 4, 3, 6, 6, 1, 3, 1>>
\* The same game with another ending; three cells are left.
LastCellGame ==
  <<5, 2, 7, 3, 2, 1, 2, 5, 5, 3, 5, 2, 4, 7, 4, 4, 2, 1, 5, 7, 7, 2, 3, 4,
    7, 1, 7, 5, 3, 6, 6, 4, 4, 3, 1, 6, 1, 6, 1>>

\* What the user has typed ahead when the program starts.
Openings ==
  { <<>>, DrawGame, LastCellGame,
    <<1, 2, 1, 2, 1, 2>>, <<1, 1, 2, 2, 3, 3>>,
    <<1, 2, 2, 3, 3, 4, 3, 4, 4, 6>>, <<7, 6, 6, 5, 5, 4, 5, 4, 4, 2>>,
    <<7, 1, 2, 1, 2, 1>> } \cup
  { [i \in 1 .. ROWS |-> n] : n \in 1 .. COLS }

\* Lines typed ahead that are not plain column numbers.
OddLines ==
  << <<"3", "a", "b", "c">>, <<"9">>, <<"2", ".", "9">>, <<"a", "b", "c">>,
     <<"0", "x", "5">> >>

TypedAhead == { Typed(o) : o \in Openings } \cup { OddLines }

Init ==
  /\ board = EmptyBoard
  /\ currentPlayer = 1
  /\ playing = TRUE
  /\ question = AskMove(TRUE, 1, 0).question
  /\ closed = AskMove(TRUE, 1, 0).closed
  /\ msg = MsgNone
  /\ row = -1
  /\ col = -1
  /\ drops = [c \in ColIdx |-> 0]
  /\ stdin \in TypedAhead
  /\ free = 0
  /\ shown = printBoard(EmptyBoard)
  /\ events = << Call("printBoard", "", 0), AskMove(TRUE, 1, 0).event >>
  /\ fault = FaultNone

\* The next typed-ahead line is delivered to the callback.
TypedLine ==
  /\ stdin # <<>>
  /\ OnLine(Head(stdin))
  /\ stdin' = Tail(stdin)
  /\ free' = free

\* The user types a line at the prompt.
FreeLine ==
  /\ stdin = <<>>
  /\ \E input \in Lines : OnLine(input)
  /\ stdin' = stdin
  /\ free' = IF board' # board THEN free + 1 ELSE free
  /\ free' <= MaxFree

Next == TypedLine \/ FreeLine

Spec == Init /\ [][Next]_vars

-----------------------------------------------------------------------------
(* Games played to their end: the user has typed ahead a game that leaves  *)
(* LiveLeft cells Empty, then types lines without bound, and does not type *)
(* rejected lines for ever.                                                *)

InitLive ==
  /\ board = EmptyBoard
  /\ currentPlayer = 1
  /\ playing = TRUE
  /\ question = AskMove(TRUE, 1, 0).question
  /\ closed = AskMove(TRUE, 1, 0).closed
  /\ msg = MsgNone
  /\ row = -1
  /\ col = -1
  /\ drops = [c \in ColIdx |-> 0]
  /\ stdin = Typed(SubSeq(DrawGame, 1, ROWS * COLS - LiveLeft))
  /\ free = 0
  /\ shown = printBoard(EmptyBoard)
  /\ events = << Call("printBoard", "", 0), AskMove(TRUE, 1, 0).event >>
  /\ fault = FaultNone

\* The user types a line at the prompt.
LiveLine ==
  /\ stdin = <<>>
  /\ \E input \in Lines : OnLine(input)
  /\ stdin' = stdin
  /\ free' = IF board' # board THEN free + 1 ELSE free

NextLive == TypedLine \/ LiveLine

\* A line that names a column with an Empty cell is delivered.
LegalLine == NextLive /\ board' # board

SpecLive == InitLive /\ [][NextLive]_vars /\ WF_vars(LegalLine)

-----------------------------------------------------------------------------
(* checkWin on its own: grids that hold pieces along one full line of the  *)
(* grid (a row, a column, a diagonal or an anti-diagonal), and one call of *)
(* checkWin on a cell that holds a piece, for the player of that piece.    *)

Grid == RowIdx \X ColIdx

\* The cells of the grid on the line through (r, c) in direction d.
FullLine(r, c, d) ==
  { <<r + i * d[1], c + i * d[2]>> : i \in (1 - COLS) .. (COLS - 1) } \cap Grid

FullLines == { FullLine(r, c, d) : r \in RowIdx, c \in ColIdx, d \in directions }

\* The grid that is f on the cells of line and Empty elsewhere.
LineBoard(line, f) ==
  [r \in RowIdx |-> [c \in ColIdx |-> IF <<r, c>> \in line THEN f[<<r, c>>] ELSE 0]]

InitWin ==
  /\ \E line \in FullLines : \E f \in [line -> 0 .. 2] : board = LineBoard(line, f)
  /\ currentPlayer = 1
  /\ playing = TRUE
  /\ question = 0
  /\ closed = 0
  /\ msg = MsgNone
  /\ row = -1
  /\ col = -1
  /\ drops = [c \in ColIdx |-> Cardinality({ r \in RowIdx : board[r][c] # 0 })]
  /\ stdin = <<>>
  /\ free = 0
  /\ shown = printBoard(board)
  /\ events = << >>
  /\ fault = FaultNone

\* if (checkWin(r, col, currentPlayer)) console.log("... gana") of lines
\* 44-45, for the piece at (r, c).
CheckCell(r, c) ==
  /\ row = -1
  /\ board[r][c] # 0
  /\ row' = r
  /\ col' = c
  /\ currentPlayer' = board[r][c]
  /\ msg' = IF checkWin(board, r, c, board[r][c]) THEN MsgWin ELSE MsgNone
  /\ UNCHANGED <<board, playing, question, closed, drops, stdin, free, shown,
                 events, fault>>

NextWin == \E r \in RowIdx : \E c \in ColIdx : CheckCell(r, c)

SpecWin == InitWin /\ [][NextWin]_vars

-----------------------------------------------------------------------------
(* Vocabulary of the properties, stated on the grid itself.                *)

InGrid(r, c) == r \in RowIdx /\ c \in ColIdx

\* Along a row, down a column, down a diagonal, down an anti-diagonal.
Axes == { <<0, 1>>, <<1, 0>>, <<1, 1>>, <<1, -1>> }

\* The four cells starting at (r, c) in direction d.
Window(r, c, d) == { <<r + i * d[1], c + i * d[2]>> : i \in 0 .. 3 }

\* Every run of four cells of the grid along a row, a column or a diagonal.
Windows ==
  { Window(r, c, d) : r \in RowIdx, c \in ColIdx, d \in Axes }
    \cap SUBSET (RowIdx \X ColIdx)

\* Four contiguous cells of player p in one line, the cell (r, c) among them.
HasLineThrough(b, r, c, p) ==
  \E w \in Windows : <<r, c>> \in w /\ \A cell \in w : b[cell[1]][cell[2]] = p

HasLineAnywhere(b, p) ==
  \E w \in Windows : \A cell \in w : b[cell[1]][cell[2]] = p

EmptyCells(b) == { cell \in RowIdx \X ColIdx : b[cell[1]][cell[2]] = 0 }

ColumnHasEmpty(b, c) == \E r \in RowIdx : b[r][c] = 0

\* b2 is b with the one cell (r, c) set to p.
OnlyCellSet(b, b2, r, c, p) ==
  \A rr \in RowIdx : \A cc \in ColIdx :
    b2[rr][cc] = IF rr = r /\ cc = c THEN p ELSE b[rr][cc]

TotalDrops == Cardinality((RowIdx \X ColIdx) \ EmptyCells(board))

\* The callback re-prompted the player who was asked before it ran.
RePromptsSamePlayer ==
  /\ currentPlayer' = currentPlayer
  /\ question' = currentPlayer
  /\ playing' = playing
  /\ playing
  /\ closed' = 0

-----------------------------------------------------------------------------
\* The eight directed steps of countDirection: the four directions and their
\* negations.
Steps == Axes \cup { <<-d[1], -d[2]>> : d \in Axes }

\* n is the number of cells of player p met from (r, c) in step d before the
\* grid ends or a cell is not p's.
StopsAtBoundaryOrMismatch(b, r, c, d, p, n) ==
  /\ \A i \in 1 .. n :
       InGrid(r + i * d[1], c + i * d[2]) /\ b[r + i * d[1]][c + i * d[2]] = p
  /\ ~(/\ InGrid(r + (n + 1) * d[1], c + (n + 1) * d[2])
       /\ b[r + (n + 1) * d[1]][c + (n + 1) * d[2]] = p)

\* C2: checkWin(row, col, player) on a cell of player is true exactly when 4
\* contiguous cells of player, the cell among them, lie in one row, column,
\* diagonal or anti-diagonal; each directed count stops at the grid boundary
\* or at the first cell that is not the player's.
C2_CheckWinIffLineOfFour ==
  row \in RowIdx =>
    /\ (msg = MsgWin) <=> HasLineThrough(board, row, col, currentPlayer)
    /\ \A d \in Steps :
         StopsAtBoundaryOrMismatch(board, row, col, d, currentPlayer,
           countDirection(board, row, col, d[1], d[2], currentPlayer))

\* checkWin was true of a cell in the middle of a line of four.
C2_Witness ==
  /\ row \in RowIdx
  /\ msg = MsgWin
  /\ \E d \in Axes :
       /\ countDirection(board, row, col, d[1], d[2], currentPlayer) > 0
       /\ countDirection(board, row, col, -d[1], -d[2], currentPlayer) > 0

-----------------------------------------------------------------------------
\* C1: whenever a line chooses an in-range column that has an Empty cell, the
\* callback places the active player's piece in that column at a row r that
\* was Empty, with every row r+1..5 of the column already non-Empty, and
\* changes no other cell.
C1_DropLandsAtLowestEmpty ==
  [][ (col' \in ColIdx /\ ColumnHasEmpty(board, col'))
        => /\ row' \in RowIdx
           /\ board[row'][col'] = 0
           /\ \A rr \in (row' + 1) .. (ROWS - 1) : board[rr][col'] # 0
           /\ OnlyCellSet(board, board', row', col', currentPlayer) ]_vars

\* A piece has landed on top of another one.
C1_Witness ==
  /\ row \in 0 .. (ROWS - 2)
  /\ col \in ColIdx
  /\ board[row][col] # 0
  /\ board[row + 1][col] # 0

\* C3: a line choosing column c is answered "column full" exactly when c has
\* already received 6 pieces; before that the drop succeeds and is counted.
C3_FullExactlyAfterSixDrops ==
  [][ col' \in ColIdx
        => /\ (msg' = MsgFull) <=> (drops[col'] = ROWS)
           /\ drops[col'] < ROWS => /\ drops'[col'] = drops[col'] + 1
                                    /\ board' # board ]_vars

\* A seventh line for a column that holds six pieces was answered "full".
C3_Witness ==
  /\ msg = MsgFull
  /\ col \in ColIdx
  /\ drops[col] = ROWS

\* The step is the callback run on this line.
Delivered(input) ==
  /\ stdin # <<>> => input = Head(stdin)
  /\ OnLine(input)

\* The index a line stands for is NaN or outside [0, 7).
OutOfRange(input) ==
  LET n == parseInt(input)
  IN  n.nan \/ n.val - 1 < 0 \/ n.val - 1 > COLS - 1

OutOfRangeLines == { input \in Lines : OutOfRange(input) }

\* C4: a line whose index is NaN or outside [0,7) is answered "invalid
\* column"; the board, the active player and the phase are unchanged and the
\* same player is asked again.
C4_InvalidColumnChangesNothing ==
  [][ \A input \in OutOfRangeLines :
        Delivered(input)
          => /\ msg' = MsgInvalid
             /\ board' = board
             /\ RePromptsSamePlayer ]_vars

\* An invalid line was answered on a board that already holds pieces.
C4_Witness ==
  /\ msg = MsgInvalid
  /\ col = -1
  /\ TotalDrops > 0
  /\ playing
  /\ question = currentPlayer

\* C5: a line choosing an in-range column without an Empty cell is answered
\* "column full"; no cell changes, the active player does not toggle, the
\* game stays in progress and the same player is asked again.
C5_FullColumnChangesNothing ==
  [][ (col' \in ColIdx /\ ~ColumnHasEmpty(board, col'))
        => /\ msg' = MsgFull
           /\ board' = board
           /\ RePromptsSamePlayer ]_vars

\* "Column full" was answered and the same player is asked again.
C5_Witness ==
  /\ msg = MsgFull
  /\ col \in ColIdx
  /\ ~ColumnHasEmpty(board, col)
  /\ playing
  /\ question = currentPlayer

\* A line is an integer numeral: an optional sign and decimal digits, with
\* nothing else but blanks around them.
RECURSIVE TrimRight(_)
TrimRight(s) ==
  IF s # <<>> /\ s[Len(s)] \in WhiteSpace
  THEN TrimRight(SubSeq(s, 1, Len(s) - 1))
  ELSE s

IsIntegerNumeral(input) ==
  LET t == TrimRight(TrimLeft(input))
      u == IF t # <<>> /\ Head(t) \in {"+", "-"} THEN Tail(t) ELSE t
  IN  /\ u # <<>>
      /\ \A i \in 1 .. Len(u) : \E k \in 1 .. Len(DecChars) : DecChars[k] = u[i]

NonIntegerLines == { input \in Lines : ~IsIntegerNumeral(input) }

\* C6: every line that is not an integer numeral ("3abc", "2.9") is answered
\* "invalid column" and places no piece.
C6_NonIntegerLineRejected ==
  [][ \A input \in NonIntegerLines :
        Delivered(input)
          => /\ msg' = MsgInvalid
             /\ board' = board ]_vars

\* The game phase of section 3 of the specification.
Phase ==
  IF playing THEN "InProgress"
  ELSE IF msg = MsgWin THEN "Won"
  ELSE "Drawn"

\* C7: once the phase is Won or Drawn, no later step changes the phase or a
\* cell of the grid, and no input is accepted: no question is outstanding
\* and the interface is closed.
C7_TerminalPhaseIsFinal ==
  /\ [](Phase # "InProgress" => question = 0 /\ closed > 0)
  /\ [][Phase # "InProgress" => Phase' = Phase /\ board' = board]_vars

\* The game is over, won or drawn.
C7_Witness ==
  /\ ~playing
  /\ msg \in {MsgWin, MsgDraw}
  /\ TotalDrops > 0

\* The step placed a piece that neither completes a line of four through
\* its cell nor fills the grid.
NonTerminalDrop ==
  /\ board' # board
  /\ ~HasLineThrough(board', row', col', currentPlayer)
  /\ EmptyCells(board') # {}

\* C8: the active player starts as player 1, and a step toggles it exactly
\* when it is a successful drop that neither wins nor fills the board.
C8_ToggleOnlyAfterNonTerminalDrop ==
  /\ currentPlayer = 1
  /\ [][ /\ NonTerminalDrop => currentPlayer' = 3 - currentPlayer
         /\ ~NonTerminalDrop => currentPlayer' = currentPlayer ]_vars

\* Player 2 is asked after a drop by player 1 that ended nothing.
C8_Witness ==
  /\ row \in RowIdx
  /\ board[row][col] = 1
  /\ currentPlayer = 2
  /\ question = 2
  /\ playing

\* C9: a drop that completes a line of four through its cell ends the game
\* as won by the player who dropped, also when it fills the last Empty cell:
\* it is never announced as a draw.
C9_WinBeforeDraw ==
  (row \in RowIdx /\ HasLineThrough(board, row, col, board[row][col]))
    => /\ msg = MsgWin
       /\ ~playing
       /\ currentPlayer = board[row][col]

\* The 42nd piece completed a line of four and the game was announced won.
C9_Witness ==
  /\ row \in RowIdx
  /\ EmptyCells(board) = {}
  /\ HasLineThrough(board, row, col, board[row][col])
  /\ msg = MsgWin

\* C10: a draw is announced exactly when the last callback placed a piece
\* that completes no line of four and leaves no Empty cell, which is the
\* 42nd piece; isBoardFull is true exactly of the grids without Empty cell.
C10_DrawIffFullWithoutWin ==
  /\ (msg = MsgDraw) <=>
       /\ row \in RowIdx
       /\ EmptyCells(board) = {}
       /\ ~HasLineThrough(board, row, col, board[row][col])
  /\ msg = MsgDraw => TotalDrops = ROWS * COLS /\ ~playing
  /\ isBoardFull(board) <=> (EmptyCells(board) = {})

\* A draw was announced on a full grid with no line of four for either player.
C10_Witness ==
  /\ msg = MsgDraw
  /\ TotalDrops = ROWS * COLS
  /\ ~HasLineAnywhere(board, 1)
  /\ ~HasLineAnywhere(board, 2)

\* The cells on which two grids differ.
ChangedCells(b, b2) == { cell \in Grid : b2[cell[1]][cell[2]] # b[cell[1]][cell[2]] }

\* C11: a cell set to a player keeps its value in every later state, the grid
\* stays 6x7 with cells in 0..2, and a step that changes the grid changes
\* exactly one cell, from Empty to the active player.
C11_CellsAreWrittenOnce ==
  /\ [](board \in [RowIdx -> [ColIdx -> 0 .. 2]])
  /\ [][ /\ \A cell \in Grid :
              board[cell[1]][cell[2]] # 0
                => board'[cell[1]][cell[2]] = board[cell[1]][cell[2]]
         /\ board' # board
              => /\ Cardinality(ChangedCells(board, board')) = 1
                 /\ ChangedCells(board, board') = {<<row', col'>>}
                 /\ board[row'][col'] = 0
                 /\ board'[row'][col'] = currentPlayer ]_vars

\* Player 2 has placed a piece on top of a piece of player 1.
C11_Witness ==
  /\ row \in 0 .. (ROWS - 2)
  /\ board[row][col] = 2
  /\ board[row + 1][col] = 1

\* The step answered a rejected line and asked the same player again.
Reprompted ==
  /\ msg' \in {MsgInvalid, MsgFull}
  /\ board' = board
  /\ playing'
  /\ question' = currentPlayer
  /\ closed' = 0

\* The step placed a piece and asked the next player.
DroppedAndAsked ==
  /\ Cardinality(ChangedCells(board, board')) = 1
  /\ msg' = MsgNone
  /\ playing'
  /\ question' = currentPlayer'
  /\ closed' = 0

\* The step placed a piece, announced the end and released the interface.
DroppedAndEnded ==
  /\ Cardinality(ChangedCells(board, board')) = 1
  /\ msg' \in {MsgWin, MsgDraw}
  /\ ~playing'
  /\ question' = 0
  /\ closed' = 1

\* C12: no line aborts the program: every callback ends in a message and a
\* new prompt for the same player, in a placed piece and a prompt, or in the
\* end of the game, and no read of board uses an index outside the grid.
C12_NoAbortNoReadOutsideGrid ==
  /\ [](fault = FaultNone)
  /\ [][Reprompted \/ DroppedAndAsked \/ DroppedAndEnded]_vars

\* A piece was placed in a bottom corner, where three of the four directions
\* of checkWin meet the boundary at once.
C12_Witness ==
  /\ row = ROWS - 1
  /\ col \in {0, COLS - 1}
  /\ TotalDrops > 1
  /\ fault = FaultNone

\* The calls of the last callback that are named name.
CallsNamed(name) == { i \in 1 .. Len(events) : events[i].call = name }

\* C13: rl.close() is called only when the game is over, once, as the last
\* call of the callback that ended the game, after that callback has printed
\* the final board and announced the win or the draw; no prompt follows it.
C13_CloseOnlyAtTheEnd ==
  /\ closed \in {0, 1}
  /\ (closed = 1) <=> ~playing
  /\ playing => CallsNamed("close") = {}
  /\ ~playing =>
       /\ question = 0
       /\ Len(events) = 3
       /\ events[1].call = "printBoard"
       /\ events[2].call = "log" /\ events[2].text \in {MsgWin, MsgDraw}
       /\ events[2].text = msg
       /\ events[3].call = "close"
       /\ shown = printBoard(board)

\* The interface was released after the announcement of a draw.
C13_Witness ==
  /\ closed = 1
  /\ msg = MsgDraw
  /\ CallsNamed("close") = {Len(events)}

\* C14: every callback, on every branch, makes exactly one follow-up call
\* (one rl.question or the rl.close), as its last call; so at most one
\* question is outstanding, and it is the one the state records.
C14_OneFollowUpPerLine ==
  /\ events # << >>
  /\ Cardinality(CallsNamed("question") \cup CallsNamed("close")) = 1
  /\ CallsNamed("question") \cup CallsNamed("close") = {Len(events)}
  /\ (question # 0) <=> (events[Len(events)].call = "question")
  /\ question # 0 => events[Len(events)].player = question

\* A full-column answer was followed by exactly one new question.
C14_Witness ==
  /\ msg = MsgFull
  /\ Len(events) = 2
  /\ events[2].call = "question"

\* C15: the outstanding prompt names the active player and the disc that
\* printBoard writes for that player's cells, and a step that places a piece
\* places it for the player named in the prompt it answers, shown with the
\* disc of that prompt.
C15_PromptNamesPlayerAndDisc ==
  /\ [](question # 0 =>
          /\ question = currentPlayer
          /\ events[Len(events)] = Call("question", events[Len(events)].text, question)
          /\ CellText(question) = <<"[", events[Len(events)].text, "]">>)
  /\ [][ board' # board =>
           /\ board'[row'][col'] = question
           /\ shown'[row'][col'] = <<"[", events[Len(events)].text, "]">> ]_vars

\* Player 2 was asked with the yellow disc and a yellow cell is on show.
C15_Witness ==
  /\ question = 2
  /\ events[Len(events)].text = Yellow
  /\ \E cell \in Grid : shown[cell[1]][cell[2]] = <<"[", Yellow, "]">>

\* The player named in the announcement of a win, 0 if none was made.
AnnouncedWinner ==
  IF \E i \in 1 .. Len(events) : events[i].call = "log" /\ events[i].text = MsgWin
  THEN events[CHOOSE i \in 1 .. Len(events) :
                events[i].call = "log" /\ events[i].text = MsgWin].player
  ELSE 0

\* C16: when a win is announced, the winner named is the player whose piece
\* the last callback placed, that player has four in a line through the
\* landing cell, and the active player is still the winner.
C16_WinnerIsLastMover ==
  msg = MsgWin =>
    /\ row \in RowIdx
    /\ AnnouncedWinner = board[row][col]
    /\ HasLineThrough(board, row, col, AnnouncedWinner)
    /\ currentPlayer = AnnouncedWinner
    /\ ~playing

\* Player 2 was announced as the winner.
C16_Witness ==
  /\ msg = MsgWin
  /\ AnnouncedWinner = 2
  /\ currentPlayer = 2

\* C17: while the game is in progress no player has four contiguous cells in
\* a line anywhere on the board.
C17_NoLineWhilePlaying ==
  playing => ~HasLineAnywhere(board, 1) /\ ~HasLineAnywhere(board, 2)

\* Three in a line with both ends open or taken, and the game goes on.
C17_Witness ==
  /\ playing
  /\ row \in RowIdx
  /\ \E d \in Axes :
       countDirection(board, row, col, d[1], d[2], board[row][col])
         + countDirection(board, row, col, -d[1], -d[2], board[row][col]) = 2

\* C18: in every column the non-Empty cells are exactly the bottom k rows,
\* k being the number of pieces dropped into it: no Empty cell lies below a
\* non-Empty one.
C18_ColumnsAreGravityConsistent ==
  \A c \in ColIdx :
    /\ drops[c] \in 0 .. ROWS
    /\ \A r \in RowIdx : (board[r][c] # 0) <=> (r >= ROWS - drops[c])

\* One column is full, one is partly filled and one is empty.
C18_Witness ==
  /\ \E c \in ColIdx : drops[c] = ROWS
  /\ \E c \in ColIdx : drops[c] \in 1 .. (ROWS - 1)
  /\ \E c \in ColIdx : drops[c] = 0

CellsOf(p) == { cell \in Grid : board[cell[1]][cell[2]] = p }

\* C19: player 1 has as many cells as player 2 or one more, and while the
\* game is in progress player 1 is the active player exactly when the counts
\* are equal.
C19_CountsDifferByTurn ==
  /\ Cardinality(CellsOf(1)) - Cardinality(CellsOf(2)) \in {0, 1}
  /\ playing =>
       ((currentPlayer = 1) <=> (Cardinality(CellsOf(1)) = Cardinality(CellsOf(2))))

\* Player 2 is asked again after a rejected line, one piece behind.
C19_Witness ==
  /\ playing
  /\ msg \in {MsgInvalid, MsgFull}
  /\ currentPlayer = 2
  /\ Cardinality(CellsOf(1)) = Cardinality(CellsOf(2)) + 1

RECURSIVE SumDrops(_)
SumDrops(c) == IF c < 0 THEN 0 ELSE drops[c] + SumDrops(c - 1)

\* The number of lines accepted so far, as counted drop by drop.
DropsSoFar == SumDrops(COLS - 1)

\* C20: at most 42 drops are ever accepted; a rejected line leaves the game in
\* progress with the same player asked again; and when the user does not type
\* rejected lines for ever, the game reaches its end.
C20_EndsUnlessOnlyRejectedLines ==
  /\ [](DropsSoFar <= ROWS * COLS)
  /\ [][ board' = board
           => /\ playing' /\ playing
              /\ currentPlayer' = currentPlayer
              /\ question' = currentPlayer
              /\ closed' = 0 ]_vars
  /\ <>(~playing)

\* The game is over with all 42 cells taken, the last of them by lines typed
\* at the prompt.
C20_Witness ==
  /\ ~playing
  /\ DropsSoFar = ROWS * COLS
  /\ free = LiveLeft

====
